---- MODULE Spec2Model ----
(***************************************************************************)
(* MochiMochi binary online learners (PA, ADAGRAD_RDA, ADAM, NHERD) and    *)
(* their boost text-archive persistence, as a state machine.               *)
(*                                                                         *)
(* A C++ double is modelled as a decimal floating-point number of eight    *)
(* significant digits, <<kind, m, e>> = m * 10^e, every operation rounded  *)
(* to nearest (ties to even) as IEEE-754 rounds every double operation.    *)
(* kind is "fin", "inf" (m = +1/-1) or "nan".  A finite value is           *)
(* normalised: m = 0 /\ e = 0, or 10^7 <= |m| < 10^8, so that equal values *)
(* are equal tuples.  All program constants (0.001, 0.9, 0.999, 1e-8,      *)
(* 0.99999999) are exactly representable.  Signed zeros are not kept.      *)
(***************************************************************************)
EXTENDS Integers, Sequences, FiniteSets, TLC

E4 == 10^4
E7 == 10^7
E8 == 10^8

----------------------------------------------------------------------------
(* double arithmetic *)

Fin(m, e) == <<"fin", m, e>>
Zero == Fin(0, 0)
PInf == <<"inf", 1, 0>>
NInf == <<"inf", -1, 0>>
NaN == <<"nan", 0, 0>>

IsFin(a) == a[1] = "fin"
IsNaN(a) == a[1] = "nan"
IsInf(a) == a[1] = "inf"

IAbs(n) == IF n < 0 THEN -n ELSE n
ISgn(n) == IF n < 0 THEN -1 ELSE IF n > 0 THEN 1 ELSE 0

\* number of decimal digits of n, 1 <= n < 2^31
NDigits(n) ==
  IF n < E4
  THEN (IF n < 100 THEN (IF n < 10 THEN 1 ELSE 2) ELSE (IF n < 1000 THEN 3 ELSE 4))
  ELSE IF n < E8
  THEN (IF n < 10 * E4 * 10 THEN (IF n < 10 * E4 THEN 5 ELSE 6)
        ELSE (IF n < E7 THEN 7 ELSE 8))
  ELSE (IF n < 10 * E8 THEN 9 ELSE 10)

\* s * M * 10^e with M of nine digits, rounded to eight (ties to even);
\* sticky: the exact value lies strictly above M * 10^e
RoundM9(s, M, sticky, e) ==
  LET q == M \div 10
      g == M % 10
      up == g > 5 \/ (g = 5 /\ (sticky \/ q % 2 = 1))
      r == IF up THEN q + 1 ELSE q
  IN  IF r = E8 THEN Fin(s * E7, e + 2) ELSE Fin(s * r, e + 1)

\* the integer n * 10^e as a double
Norm8(n, e) ==
  IF n = 0 THEN Zero
  ELSE LET a == IAbs(n)
           j == NDigits(a)
       IN  IF j <= 8 THEN Fin(n * 10^(8-j), e - (8-j))
           ELSE IF j = 9 THEN RoundM9(ISgn(n), a, FALSE, e)
           ELSE RoundM9(ISgn(n), a \div 10, a % 10 # 0, e + 1)

\* s * (H * 10^8 + L) * 10^e as a double, 0 <= L < 10^8, 0 <= H < 10^9
NormWide(s, H, L, e) ==
  IF H = 0 THEN Norm8(s * L, e)
  ELSE LET j == NDigits(H)
       IN  IF j >= 9 THEN RoundM9(s, H, L # 0, e + 8)
           ELSE RoundM9(s, H * 10^(9-j) + L \div 10^(j-1),
                        L % 10^(j-1) # 0, e + (j-1))

FromInt(n) == Norm8(n, 0)
One == FromInt(1)
Two == FromInt(2)

AddFin(a, b) ==
  IF a[2] = 0 THEN b
  ELSE IF b[2] = 0 THEN a
  ELSE LET big == IF a[3] >= b[3] THEN a ELSE b
           sml == IF a[3] >= b[3] THEN b ELSE a
           d == big[3] - sml[3]
       IN  IF d = 0 THEN Norm8(big[2] + sml[2], sml[3])
           ELSE IF d >= 10 THEN big
           ELSE LET m1 == IAbs(big[2])
                    s == ISgn(big[2])
                    H1 == IF d = 9 THEN m1 * 10 ELSE m1 \div 10^(8-d)
                    L1 == IF d = 9 THEN 0 ELSE (m1 % 10^(8-d)) * 10^d
                    Lr == L1 + s * sml[2]
                    H == IF Lr < 0 THEN H1 - 1
                         ELSE IF Lr >= E8 THEN H1 + 1 ELSE H1
                    L == IF Lr < 0 THEN Lr + E8
                         ELSE IF Lr >= E8 THEN Lr - E8 ELSE Lr
                IN  NormWide(s, H, L, sml[3])

MulFin(a, b) ==
  IF a[2] = 0 \/ b[2] = 0 THEN Zero
  ELSE LET A == IAbs(a[2])
           B == IAbs(b[2])
           a1 == A \div E4
           a0 == A % E4
           b1 == B \div E4
           b0 == B % E4
           mid == a1 * b0 + a0 * b1
           lowsum == (mid % E4) * E4 + a0 * b0
           H == a1 * b1 + mid \div E4 + lowsum \div E8
           L == lowsum % E8
       IN  NormWide(ISgn(a[2]) * ISgn(b[2]), H, L, a[3] + b[3])

RECURSIVE DivDigits(_, _, _, _)
DivDigits(r, B, n, acc) ==
  IF n = 0 THEN <<acc, r>>
  ELSE DivDigits((r * 10) % B, B, n - 1, acc * 10 + (r * 10) \div B)

\* b # 0
DivFin(a, b) ==
  IF a[2] = 0 THEN Zero
  ELSE LET A == IAbs(a[2])
           B == IAbs(b[2])
           q0 == A \div B
           n == IF q0 >= 1 THEN 8 ELSE 9
           qr == DivDigits(A % B, B, n, q0)
       IN  RoundM9(ISgn(a[2]) * ISgn(b[2]), qr[1], qr[2] # 0, a[3] - b[3] - n)

\* c * c as <<Hi, Lo>> = Hi * 10^9 + Lo, 0 <= c < 10^9
Square(c) ==
  LET c2 == c \div E8
      c1 == (c \div E4) % E4
      c0 == c % E4
      p0 == c0 * c0
      t1 == 2 * c1 * c0 + p0 \div E4
      t2 == 2 * c2 * c0 + c1 * c1 + t1 \div E4
      t3 == 2 * c2 * c1 + t2 \div E4
      l0 == p0 % E4
      l1 == t1 % E4
      l2 == t2 % E4
      l3 == t3 % E4
      l4 == c2 * c2 + t3 \div E4
  IN  <<l4 * E7 + l3 * 1000 + l2 \div 10, (l2 % 10) * E8 + l1 * E4 + l0>>

\* the largest c in lo..hi-1 with c * c <= XH * 10^9
RECURSIVE SqrtSearch(_, _, _)
SqrtSearch(lo, hi, XH) ==
  IF hi - lo <= 1 THEN lo
  ELSE LET mid == (lo + hi) \div 2
           sq == Square(mid)
       IN  IF sq[1] < XH \/ (sq[1] = XH /\ sq[2] = 0)
           THEN SqrtSearch(mid, hi, XH)
           ELSE SqrtSearch(lo, mid, XH)

\* a > 0
SqrtFin(a) ==
  LET even == a[3] % 2 = 0
      XH == IF even THEN a[2] * 10 ELSE a[2]
      s == SqrtSearch(E8, 10 * E8, XH)
      ex == IF even THEN (a[3] - 10) \div 2 ELSE (a[3] - 9) \div 2
  IN  RoundM9(1, s, Square(s) # <<XH, 0>>, ex)

Neg(a) == IF IsNaN(a) THEN NaN ELSE <<a[1], -a[2], a[3]>>

Add(a, b) ==
  IF IsNaN(a) \/ IsNaN(b) THEN NaN
  ELSE IF IsInf(a) THEN (IF IsInf(b) /\ b[2] # a[2] THEN NaN ELSE a)
  ELSE IF IsInf(b) THEN b
  ELSE AddFin(a, b)

Sub(a, b) == Add(a, Neg(b))

Mul(a, b) ==
  IF IsNaN(a) \/ IsNaN(b) THEN NaN
  ELSE IF IsInf(a) \/ IsInf(b)
       THEN (IF a[2] = 0 \/ b[2] = 0 THEN NaN
             ELSE <<"inf", ISgn(a[2]) * ISgn(b[2]), 0>>)
  ELSE MulFin(a, b)

Div(a, b) ==
  IF IsNaN(a) \/ IsNaN(b) THEN NaN
  ELSE IF IsInf(a) THEN (IF IsInf(b) THEN NaN
                         ELSE <<"inf", a[2] * (IF b[2] < 0 THEN -1 ELSE 1), 0>>)
  ELSE IF IsInf(b) THEN Zero
  ELSE IF b[2] = 0 THEN (IF a[2] = 0 THEN NaN ELSE <<"inf", ISgn(a[2]), 0>>)
  ELSE DivFin(a, b)

Sqrt(a) ==
  IF IsNaN(a) \/ a[2] < 0 THEN NaN
  ELSE IF IsInf(a) \/ a[2] = 0 THEN a
  ELSE SqrtFin(a)

FAbs(a) == IF IsNaN(a) THEN NaN ELSE <<a[1], IAbs(a[2]), a[3]>>

\* a < b
Lt(a, b) ==
  IF IsNaN(a) \/ IsNaN(b) THEN FALSE
  ELSE IF IsInf(a) THEN a[2] < 0 /\ ~(IsInf(b) /\ b[2] < 0)
  ELSE IF IsInf(b) THEN b[2] > 0
  ELSE LET sa == ISgn(a[2])
           sb == ISgn(b[2])
       IN  IF sa # sb THEN sa < sb
           ELSE IF sa = 0 THEN FALSE
           ELSE IF sa > 0 THEN a[3] < b[3] \/ (a[3] = b[3] /\ a[2] < b[2])
           ELSE a[3] > b[3] \/ (a[3] = b[3] /\ a[2] < b[2])

Eq(a, b) == ~IsNaN(a) /\ ~IsNaN(b) /\ a = b
Le(a, b) == Lt(a, b) \/ Eq(a, b)
Gt(a, b) == Lt(b, a)
Ge(a, b) == Le(b, a)

\* std::max(a, b) = (a < b) ? b : a;  std::min(a, b) = (b < a) ? b : a
Max(a, b) == IF Lt(a, b) THEN b ELSE a
Min(a, b) == IF Lt(b, a) THEN b ELSE a

\* std::pow(x, n) for an integer n >= 0
RECURSIVE Pow(_, _)
Pow(x, n) == IF n = 0 THEN One ELSE Mul(Pow(x, n - 1), x)

----------------------------------------------------------------------------
(* Eigen::VectorXd as a sequence of doubles *)

\* a decimal literal n * 10^e of the source, e.g. 0.5 = Dec(5, -1)
Dec(n, e) == Norm8(n, e)

Zeros(n) == [i \in 1..n |-> Zero]
Ones(n) == [i \in 1..n |-> One]

RECURSIVE DotFrom(_, _, _, _)
DotFrom(w, x, i, acc) ==
  IF i > Len(x) THEN acc ELSE DotFrom(w, x, i + 1, Add(acc, Mul(w[i], x[i])))

\* w.dot(x), both of the same size
Dot(w, x) == IF Len(x) = 0 THEN Zero ELSE DotFrom(w, x, 2, Mul(w[1], x[1]))

----------------------------------------------------------------------------
(* boost text archive: a flat sequence of tokens read back in the order   *)
(* they were written (the nvp names are not stored by a text archive).    *)
(* A std::vector<double> is its element count followed by its elements.   *)

WriteVector(v) == <<Len(v)>> \o v

\* the vector starting at token p, and the position after it
ReadVector(ar, p) == <<SubSeq(ar, p + 1, p + ar[p]), p + ar[p] + 1>>

----------------------------------------------------------------------------
(* class PA *)

\* the lambda the constructor's switch stores in _compute_tau is named by
\* its case label; the lambdas capture this, so kC is read at call time
PA_new(dim, C, select) ==
  [kDim |-> dim, kC |-> C, kSelect |-> select,
   _weight |-> Zeros(dim), _compute_tau |-> select]

PA_suffer_loss(m, x, y) ==
  Max(Zero, Sub(One, Mul(FromInt(y), Dot(m._weight, x))))

PA_compute_margin(m, x) == Dot(m._weight, x)

\* PA-II with the regularization term written as 1.0 / (2 * kC)
PA_compute_tau_reciprocal(m, value, loss) ==
  LET sq == Mul(FAbs(value), FAbs(value))
  IN  CASE m._compute_tau = 0 ->
             IF Eq(value, Zero) THEN Zero ELSE Div(loss, sq)
        [] m._compute_tau = 1 ->
             LET pa == Div(loss, sq)
             IN  IF Eq(value, Zero) THEN m.kC ELSE Min(m.kC, pa)
        [] m._compute_tau = 2 ->
             Div(loss, Add(sq, Div(One, Mul(Two, m.kC))))

\* the lambdas of PA-0 and PA-I without the test of value == 0
PA_compute_tau_unguarded(m, value, loss) ==
  LET sq == Mul(FAbs(value), FAbs(value))
  IN  CASE m._compute_tau = 0 -> Div(loss, sq)
        [] m._compute_tau = 1 -> Min(m.kC, Div(loss, sq))
        [] m._compute_tau = 2 ->
             Div(loss, Add(sq, Mul(Div(One, Two), m.kC)))

PA_compute_tau(m, value, loss) ==
  LET sq == Mul(FAbs(value), FAbs(value))
  IN  CASE m._compute_tau = 0 ->
             IF Eq(value, Zero) THEN Zero ELSE Div(loss, sq)
        [] m._compute_tau = 1 ->
             LET pa == Div(loss, sq)
             IN  IF Eq(value, Zero) THEN m.kC ELSE Min(m.kC, pa)
        [] m._compute_tau = 2 ->
             Div(loss, Add(sq, Mul(Div(One, Two), m.kC)))

PA_update(m, x, y) ==
  LET loss == PA_suffer_loss(m, x, y)
  IN  [model |-> [m EXCEPT !._weight =
                    [index \in 1..Len(x) |->
                       Add(m._weight[index],
                           Mul(Mul(PA_compute_tau(m, x[index], loss), FromInt(y)),
                               x[index]))]],
       ret |-> TRUE]

\* predict with compute_margin(feature) >= 0.0
PA_predict_nonnegative(m, x) ==
  IF Ge(PA_compute_margin(m, x), Zero) THEN 1 ELSE -1

PA_predict(m, x) == IF Gt(PA_compute_margin(m, x), Zero) THEN 1 ELSE -1

PA_save(m) == WriteVector(m._weight) \o <<m.kDim, m.kC, m.kSelect>>

\* load without the assignment to kDim
PA_load_keeps_dim(m, ar) ==
  LET weight == ReadVector(ar, 1)
      p == weight[2]
  IN  [m EXCEPT !.kC = ar[p + 1], !.kSelect = ar[p + 2], !._weight = weight[1]]

PA_load(m, ar) ==
  LET weight == ReadVector(ar, 1)
      p == weight[2]
  IN  [m EXCEPT !.kDim = ar[p], !.kC = ar[p + 1], !.kSelect = ar[p + 2],
                !._weight = weight[1]]

----------------------------------------------------------------------------
(* class ADAGRAD_RDA *)

ADAGRAD_RDA_new(dim, eta, lambda) ==
  [kDim |-> dim, kEta |-> eta, kLambda |-> lambda, _timestep |-> 0,
   _w |-> Zeros(dim), _h |-> Zeros(dim), _g |-> Zeros(dim)]

ADAGRAD_RDA_calculate_margin(m, x) == Dot(m._w, x)

ADAGRAD_RDA_suffer_loss(m, x, y) ==
  Max(Zero, Sub(One, Mul(FromInt(y), Dot(m._w, x))))

\* const auto u = std::abs(_g[index]) / _timestep
ADAGRAD_RDA_u(g, timestep) == Div(FAbs(g), FromInt(timestep))

\* the weight without the truncation at kLambda
ADAGRAD_RDA_w_untruncated(m, g, h, timestep) ==
  LET sign == IF Ge(g, Zero) THEN 1 ELSE -1
      eta == Div(m.kEta, Sqrt(h))
      u == ADAGRAD_RDA_u(g, timestep)
  IN  Mul(Mul(Mul(FromInt(-sign), eta), FromInt(timestep)), Sub(u, m.kLambda))

\* _w[index] = (u <= kLambda) ? 0.0 : -sign * eta * _timestep * (u - kLambda)
ADAGRAD_RDA_w(m, g, h, timestep) ==
  LET sign == IF Ge(g, Zero) THEN 1 ELSE -1
      eta == Div(m.kEta, Sqrt(h))
      u == ADAGRAD_RDA_u(g, timestep)
  IN  IF Le(u, m.kLambda) THEN Zero
      ELSE Mul(Mul(Mul(FromInt(-sign), eta), FromInt(timestep)),
               Sub(u, m.kLambda))

\* update whose lambda returns at once for value == 0
ADAGRAD_RDA_update_skips_zero(m, x, y) ==
  IF Le(ADAGRAD_RDA_suffer_loss(m, x, y), Zero) THEN [model |-> m, ret |-> FALSE]
  ELSE LET timestep == m._timestep + 1
           gradiant == [index \in 1..Len(x) |-> Mul(FromInt(-y), x[index])]
           g == [index \in 1..Len(x) |-> Add(m._g[index], gradiant[index])]
           h == [index \in 1..Len(x) |->
                   Add(m._h[index], Mul(gradiant[index], gradiant[index]))]
       IN  [model |-> [m EXCEPT !._timestep = timestep, !._g = g, !._h = h,
                         !._w = [index \in 1..Len(x) |->
                                   IF Eq(x[index], Zero) THEN m._w[index]
                                   ELSE ADAGRAD_RDA_w(m, g[index], h[index],
                                                      timestep)]],
            ret |-> TRUE]

\* update with _timestep++ placed before the early return
ADAGRAD_RDA_update_counts_skipped(m, x, y) ==
  IF Le(ADAGRAD_RDA_suffer_loss(m, x, y), Zero)
  THEN [model |-> [m EXCEPT !._timestep = m._timestep + 1], ret |-> FALSE]
  ELSE LET timestep == m._timestep + 1
           gradiant == [index \in 1..Len(x) |-> Mul(FromInt(-y), x[index])]
           g == [index \in 1..Len(x) |-> Add(m._g[index], gradiant[index])]
           h == [index \in 1..Len(x) |->
                   Add(m._h[index], Mul(gradiant[index], gradiant[index]))]
       IN  [model |-> [m EXCEPT !._timestep = timestep, !._g = g, !._h = h,
                         !._w = [index \in 1..Len(x) |->
                                   ADAGRAD_RDA_w(m, g[index], h[index], timestep)]],
            ret |-> TRUE]

\* update that returns early on suffer_loss(feature, label) < 0.0
ADAGRAD_RDA_update_strict(m, x, y) ==
  IF Lt(ADAGRAD_RDA_suffer_loss(m, x, y), Zero) THEN [model |-> m, ret |-> FALSE]
  ELSE LET timestep == m._timestep + 1
           gradiant == [index \in 1..Len(x) |-> Mul(FromInt(-y), x[index])]
           g == [index \in 1..Len(x) |-> Add(m._g[index], gradiant[index])]
           h == [index \in 1..Len(x) |->
                   Add(m._h[index], Mul(gradiant[index], gradiant[index]))]
       IN  [model |-> [m EXCEPT !._timestep = timestep, !._g = g, !._h = h,
                         !._w = [index \in 1..Len(x) |->
                                   ADAGRAD_RDA_w(m, g[index], h[index], timestep)]],
            ret |-> TRUE]

ADAGRAD_RDA_update(m, x, y) ==
  IF Le(ADAGRAD_RDA_suffer_loss(m, x, y), Zero) THEN [model |-> m, ret |-> FALSE]
  ELSE LET timestep == m._timestep + 1
           gradiant == [index \in 1..Len(x) |-> Mul(FromInt(-y), x[index])]
           g == [index \in 1..Len(x) |-> Add(m._g[index], gradiant[index])]
           h == [index \in 1..Len(x) |->
                   Add(m._h[index], Mul(gradiant[index], gradiant[index]))]
       IN  [model |-> [m EXCEPT !._timestep = timestep, !._g = g, !._h = h,
                         !._w = [index \in 1..Len(x) |->
                                   ADAGRAD_RDA_w(m, g[index], h[index], timestep)]],
            ret |-> TRUE]

ADAGRAD_RDA_predict(m, x) ==
  IF Gt(ADAGRAD_RDA_calculate_margin(m, x), Zero) THEN 1 ELSE -1

ADAGRAD_RDA_save(m) ==
  WriteVector(m._w) \o WriteVector(m._h) \o WriteVector(m._g)
    \o <<m.kDim, m.kEta, m.kLambda, m._timestep>>

ADAGRAD_RDA_load(m, ar) ==
  LET w_vector == ReadVector(ar, 1)
      h_vector == ReadVector(ar, w_vector[2])
      g_vector == ReadVector(ar, h_vector[2])
      p == g_vector[2]
  IN  [m EXCEPT !.kDim = ar[p], !.kEta = ar[p + 1], !.kLambda = ar[p + 2],
                !._timestep = ar[p + 3],
                !._w = w_vector[1], !._h = h_vector[1], !._g = g_vector[1]]

----------------------------------------------------------------------------
(* class ADAM *)

kAlpha == Dec(1, -3)
kBeta1 == Dec(9, -1)
kBeta2 == Dec(999, -3)
kEpsilon == Dec(1, -8)
kLambda == Dec(99999999, -8)

ADAM_new(dim) ==
  [kDim |-> dim, _timestep |-> 0,
   _w |-> Zeros(dim), _m |-> Zeros(dim), _v |-> Zeros(dim)]

ADAM_suffer_loss(m, x, y) ==
  Max(Zero, Sub(One, Mul(FromInt(y), Dot(m._w, x))))

ADAM_calculate_margin(m, x) == Dot(m._w, x)

ADAM_update(m, x, y) ==
  IF Le(ADAM_suffer_loss(m, x, y), Zero) THEN [model |-> m, ret |-> FALSE]
  ELSE LET gradiant == [index \in 1..Len(x) |-> Mul(FromInt(-y), x[index])]
           beta1_t == Mul(Pow(kLambda, m._timestep), kBeta1)
           timestep == m._timestep + 1
           mm == [index \in 1..Len(x) |->
                    Add(Mul(beta1_t, m._m[index]),
                        Mul(Sub(One, beta1_t), gradiant[index]))]
           vv == [index \in 1..Len(x) |->
                    Add(Mul(kBeta2, m._v[index]),
                        Mul(Mul(Sub(One, kBeta2), gradiant[index]), gradiant[index]))]
           m_t == [index \in 1..Len(x) |->
                     Div(mm[index], Sub(One, Pow(kBeta1, timestep)))]
           v_t == [index \in 1..Len(x) |->
                     Div(vv[index], Sub(One, Pow(kBeta2, timestep)))]
       IN  [model |-> [m EXCEPT !._timestep = timestep, !._m = mm, !._v = vv,
                         !._w = [index \in 1..Len(x) |->
                                   Sub(m._w[index],
                                       Div(Mul(kAlpha, m_t[index]),
                                           Add(Sqrt(v_t[index]), kEpsilon)))]],
            ret |-> TRUE]

ADAM_predict(m, x) == IF Gt(ADAM_calculate_margin(m, x), Zero) THEN 1 ELSE -1

ADAM_save(m) ==
  WriteVector(m._w) \o WriteVector(m._m) \o WriteVector(m._v) \o <<m.kDim>>

ADAM_load(m, ar) ==
  LET w_vector == ReadVector(ar, 1)
      m_vector == ReadVector(ar, w_vector[2])
      v_vector == ReadVector(ar, m_vector[2])
  IN  [m EXCEPT !.kDim = ar[v_vector[2]],
                !._w = w_vector[1], !._m = m_vector[1], !._v = v_vector[1]]

----------------------------------------------------------------------------
(* class NHERD *)

\* as in PA, _compute_covariance holds the case label of the stored lambda
NHERD_new(dim, C, diagonal) ==
  [kDim |-> dim, kC |-> C, kDiagonal |-> diagonal,
   _covariances |-> Ones(dim), _means |-> Zeros(dim),
   _compute_covariance |-> diagonal]

NHERD_suffer_loss(margin, label) == Mul(margin, FromInt(label))

NHERD_compute_margin(m, x) == Dot(m._means, x)

RECURSIVE NHERD_confidence_from(_, _, _, _)
NHERD_confidence_from(m, feature, index, confidence) ==
  IF index > Len(feature) THEN confidence
  ELSE NHERD_confidence_from(m, feature, index + 1,
         Add(confidence,
             Mul(Mul(m._covariances[index], feature[index]), feature[index])))

NHERD_compute_confidence(m, feature) == NHERD_confidence_from(m, feature, 1, Zero)

NHERD_compute_covariance(m, covariance, confidence, value) ==
  LET CC == Mul(m.kC, m.kC)
      twoC == Mul(Two, m.kC)
      onePlus == Add(One, Mul(m.kC, confidence))
  IN  CASE m._compute_covariance = 0 ->
             LET v == Mul(covariance, value)
             IN  Sub(covariance,
                     Div(Mul(Mul(v, v), Add(Mul(CC, confidence), twoC)),
                         Mul(onePlus, onePlus)))
        [] m._compute_covariance = 1 ->
             LET d == Add(One, Mul(Mul(Mul(m.kC, value), value), covariance))
             IN  Div(covariance, Mul(d, d))
        [] m._compute_covariance = 2 ->
             Div(One, Add(Div(One, covariance),
                          Mul(Mul(Add(twoC, Mul(CC, confidence)), value), value)))
        [] m._compute_covariance = 3 ->
             LET cv == Mul(covariance, value)
                 v == Div(Mul(Mul(cv, cv), Add(Mul(CC, confidence), twoC)),
                          Mul(onePlus, onePlus))
             IN  Sub(covariance, v)

NHERD_update(m, x, y) ==
  LET margin == NHERD_compute_margin(m, x)
  IN  IF Ge(NHERD_suffer_loss(margin, y), One) THEN [model |-> m, ret |-> FALSE]
      ELSE LET confidence == NHERD_compute_confidence(m, x)
               alpha == Div(Max(Zero, Sub(One, Mul(FromInt(y), margin))),
                            Add(confidence, Div(One, m.kC)))
           IN  [model |-> [m EXCEPT
                  !._means = [index \in 1..Len(x) |->
                     Add(m._means[index],
                         Mul(Mul(Mul(alpha, FromInt(y)), m._covariances[index]),
                             x[index]))],
                  !._covariances = [index \in 1..Len(x) |->
                     NHERD_compute_covariance(m, m._covariances[index],
                                              confidence, x[index])]],
                ret |-> TRUE]

NHERD_predict(m, x) == IF Gt(NHERD_compute_margin(m, x), Zero) THEN 1 ELSE -1

NHERD_save(m) ==
  WriteVector(m._covariances) \o WriteVector(m._means)
    \o <<m.kDim, m.kC, m.kDiagonal>>

\* load that fills _means from covariances_vector
NHERD_load_means_from_covariances(m, ar) ==
  LET covariances_vector == ReadVector(ar, 1)
      means_vector == ReadVector(ar, covariances_vector[2])
      p == means_vector[2]
  IN  [m EXCEPT !.kDim = ar[p], !.kC = ar[p + 1], !.kDiagonal = ar[p + 2],
                !._covariances = covariances_vector[1],
                !._means = covariances_vector[1]]

NHERD_load(m, ar) ==
  LET covariances_vector == ReadVector(ar, 1)
      means_vector == ReadVector(ar, covariances_vector[2])
      p == means_vector[2]
  IN  [m EXCEPT !.kDim = ar[p], !.kC = ar[p + 1], !.kDiagonal = ar[p + 2],
                !._covariances = covariances_vector[1],
                !._means = means_vector[1]]

----------------------------------------------------------------------------
(* the BinaryOML interface: dispatch on the class of the instance *)

Algs == {"PA", "ADAGRAD_RDA", "ADAM", "NHERD"}

update(a, m, x, y) ==
  CASE a = "PA" -> PA_update(m, x, y)
    [] a = "ADAGRAD_RDA" -> ADAGRAD_RDA_update(m, x, y)
    [] a = "ADAM" -> ADAM_update(m, x, y)
    [] a = "NHERD" -> NHERD_update(m, x, y)

predict(a, m, x) ==
  CASE a = "PA" -> PA_predict(m, x)
    [] a = "ADAGRAD_RDA" -> ADAGRAD_RDA_predict(m, x)
    [] a = "ADAM" -> ADAM_predict(m, x)
    [] a = "NHERD" -> NHERD_predict(m, x)

save(a, m) ==
  CASE a = "PA" -> PA_save(m)
    [] a = "ADAGRAD_RDA" -> ADAGRAD_RDA_save(m)
    [] a = "ADAM" -> ADAM_save(m)
    [] a = "NHERD" -> NHERD_save(m)

load(a, m, ar) ==
  CASE a = "PA" -> PA_load(m, ar)
    [] a = "ADAGRAD_RDA" -> ADAGRAD_RDA_load(m, ar)
    [] a = "ADAM" -> ADAM_load(m, ar)
    [] a = "NHERD" -> NHERD_load(m, ar)

----------------------------------------------------------------------------------------------------------------------------------------------------------------------------------------------------
(* The runs explored.  Instance 1 is trained and writes the model file;    *)
(* instance 2 is a second instance of the same class, built with other     *)
(* constructor arguments, that is used once a file has been written.       *)

MaxUpdates == 2
MaxTransfers == 2

Ids == {1, 2}
Dims == {1, 2}
Labels == {1, -1}

PA_Cs == {Dec(5, -1), One}
PA_Selects == {0, 1, 2}
RDA_Etas == {One, Two}
RDA_Lambdas == {One}
NHERD_Cs == {One}
NHERD_Diagonals == {0, 1, 2, 3}

Constructed(a) ==
  CASE a = "PA" ->
         {PA_new(d, C, sel) : d \in Dims, C \in PA_Cs, sel \in PA_Selects}
    [] a = "ADAGRAD_RDA" ->
         {ADAGRAD_RDA_new(d, eta, la) : d \in Dims, eta \in RDA_Etas, la \in RDA_Lambdas}
    [] a = "ADAM" -> {ADAM_new(d) : d \in Dims}
    [] a = "NHERD" ->
         {NHERD_new(d, C, dg) : d \in Dims, C \in NHERD_Cs, dg \in NHERD_Diagonals}

\* m2 was built with another dimension, another constant and the next selector
OtherArguments(a, m1, m2) ==
  /\ m2.kDim # m1.kDim
  /\ CASE a = "PA" ->
            /\ Cardinality(PA_Cs) > 1 => m2.kC # m1.kC
            /\ m2.kSelect = (m1.kSelect + 1) % Cardinality(PA_Selects)
       [] a = "ADAGRAD_RDA" ->
            /\ Cardinality(RDA_Etas) > 1 => m2.kEta # m1.kEta
            /\ Cardinality(RDA_Lambdas) > 1 => m2.kLambda # m1.kLambda
       [] a = "ADAM" -> TRUE
       [] a = "NHERD" ->
            /\ Cardinality(NHERD_Cs) > 1 => m2.kC # m1.kC
            /\ m2.kDiagonal = (m1.kDiagonal + 1) % Cardinality(NHERD_Diagonals)

FeatureValues(a) ==
  CASE a = "PA" -> {Zero, One}
    [] a = "ADAGRAD_RDA" -> {Zero, One, Two}
    [] a = "ADAM" -> {Zero, One, FromInt(2000)}
    [] a = "NHERD" -> {Zero, One, Two}

\* the feature vectors of size d
Features(a, d) == [1..d -> FeatureValues(a)]

\* the labelled examples <<feature, label>> the instances are trained on
Examples(a, d) ==
  CASE a = "PA" /\ d = 1 -> {<<<<One>>, 1>>, <<<<One>>, -1>>, <<<<Zero>>, 1>>}
    [] a = "PA" /\ d = 2 ->
         {<<<<One, Zero>>, 1>>, <<<<One, One>>, 1>>, <<<<Zero, One>>, -1>>,
          <<<<Zero, Zero>>, -1>>}
    [] a = "ADAGRAD_RDA" /\ d = 1 ->
         {<<<<Two>>, 1>>, <<<<One>>, 1>>, <<<<One>>, -1>>, <<<<Zero>>, 1>>}
    [] a = "ADAGRAD_RDA" /\ d = 2 ->
         {<<<<Two, One>>, 1>>, <<<<One, Zero>>, 1>>, <<<<Two, Zero>>, 1>>,
          <<<<Zero, One>>, -1>>}
    [] a = "ADAM" /\ d = 1 ->
         {<<<<FromInt(2000)>>, 1>>, <<<<One>>, 1>>, <<<<One>>, -1>>,
          <<<<Zero>>, 1>>}
    [] a = "ADAM" /\ d = 2 ->
         {<<<<FromInt(2000), One>>, 1>>, <<<<One, Zero>>, 1>>, <<<<Zero, One>>, -1>>}
    [] a = "NHERD" /\ d = 1 ->
         {<<<<One>>, 1>>, <<<<Two>>, 1>>, <<<<One>>, -1>>, <<<<Zero>>, 1>>,
          <<<<FromInt(10000)>>, 1>>}
    [] a = "NHERD" /\ d = 2 ->
         {<<<<One, One>>, 1>>, <<<<Two, Two>>, 1>>, <<<<Zero, One>>, -1>>,
          <<<<Zero, Zero>>, 1>>}

\* the vectors predict is called on
Probes(a, d) == {Zeros(d), Ones(d)}

VARIABLES
  alg,         \* the class of the two instances
  inst,        \* inst[i]: the fields of instance i
  archive,     \* the tokens of the model file, <<>> before the first save
  nUpdates,    \* update calls made so far
  nTransfers,  \* save and load calls made so far
  saved,       \* <<m, e>>: the instance and its exceeded[] when the file was written
  loadedFrom,  \* loadedFrom[i] = <<m, b>>: i was just loaded from the file m
               \* wrote, and was b before the load
  last,        \* the last update or predict call: its arguments, its result
               \* and the instance before it
  exceeded,    \* exceeded[i][k]: some update of ADAGRAD_RDA instance i found
               \* u > kLambda at coordinate k
  creator      \* creator[i]: the creator that owns instance i, the arguments
               \* it was constructed with and how its last call ended

vars == <<alg, inst, archive, nUpdates, nTransfers, saved, loadedFrom, last,
          exceeded, creator>>

\* exceeded[i] after an update of i that returned r
ExceededAfter(e, r) ==
  IF alg = "ADAGRAD_RDA" /\ r.ret
  THEN [k \in 1..Len(e) |->
          e[k] \/ Gt(ADAGRAD_RDA_u(r.model._g[k], r.model._timestep),
                     r.model.kLambda)]
  ELSE e

Call(op, i, x, y, ret, pre) ==
  [op |-> op, id |-> i, x |-> x, y |-> y, ret |-> ret, pre |-> pre]

NoCall == Call("none", 0, <<>>, 0, 0, <<>>)

\* an instance that is used through its own member functions
NoCreator == [name |-> "none", status |-> "returned"]

Init ==
  /\ alg \in Algs
  /\ inst \in [Ids -> Constructed(alg)]
  /\ OtherArguments(alg, inst[1], inst[2])
  /\ archive = <<>>
  /\ nUpdates = 0
  /\ nTransfers = 0
  /\ saved = <<>>
  /\ loadedFrom = [i \in Ids |-> <<>>]
  /\ last = NoCall
  /\ exceeded = [i \in Ids |-> [k \in 1..inst[i].kDim |-> FALSE]]
  /\ creator = [i \in Ids |-> NoCreator]

Update(i) ==
  /\ nUpdates < MaxUpdates
  /\ i = 1 \/ nTransfers > 0
  /\ \E ex \in Examples(alg, inst[i].kDim) :
       LET r == update(alg, inst[i], ex[1], ex[2])
       IN  /\ inst' = [inst EXCEPT ![i] = r.model]
           /\ last' = Call("update", i, ex[1], ex[2],
                           IF r.ret THEN 1 ELSE 0, <<inst[i]>>)
           /\ exceeded' = [exceeded EXCEPT ![i] = ExceededAfter(exceeded[i], r)]
  /\ nUpdates' = nUpdates + 1
  /\ loadedFrom' = [loadedFrom EXCEPT ![i] = <<>>]
  /\ UNCHANGED <<alg, archive, nTransfers, saved, creator>>

Predict(i) ==
  /\ i = 1 \/ nTransfers > 0
  /\ \E x \in Probes(alg, inst[i].kDim) :
       last' = Call("predict", i, x, 0, predict(alg, inst[i], x), <<inst[i]>>)
  /\ UNCHANGED <<alg, inst, archive, nUpdates, nTransfers, saved, loadedFrom,
                 exceeded, creator>>

Save(i) ==
  /\ nTransfers < MaxTransfers
  /\ i = 1
  /\ archive' = save(alg, inst[i])
  /\ saved' = <<inst[i], exceeded[i]>>
  /\ nTransfers' = nTransfers + 1
  /\ last' = NoCall
  /\ UNCHANGED <<alg, inst, nUpdates, loadedFrom, exceeded, creator>>

Load(i) ==
  /\ nTransfers < MaxTransfers
  /\ archive # <<>>
  /\ inst' = [inst EXCEPT ![i] = load(alg, inst[i], archive)]
  /\ loadedFrom' = [loadedFrom EXCEPT ![i] = <<saved[1], inst[i]>>]
  /\ exceeded' = [exceeded EXCEPT ![i] = saved[2]]
  /\ nTransfers' = nTransfers + 1
  /\ last' = NoCall
  /\ UNCHANGED <<alg, archive, nUpdates, saved, creator>>

Next == \E i \in Ids : Update(i) \/ Predict(i) \/ Save(i) \/ Load(i)

Spec == Init /\ [][Next]_vars

----------------------------------------------------------------------------
(* Properties *)

\* the vector predict takes the inner product with
Weight(a, m) ==
  CASE a = "PA" -> m._weight
    [] a = "ADAGRAD_RDA" -> m._w
    [] a = "ADAM" -> m._w
    [] a = "NHERD" -> m._means

\* the per-coordinate vectors of an instance
StateVectors(a, m) ==
  CASE a = "PA" -> {m._weight}
    [] a = "ADAGRAD_RDA" -> {m._w, m._h, m._g}
    [] a = "ADAM" -> {m._w, m._m, m._v}
    [] a = "NHERD" -> {m._covariances, m._means}

\* m is as its constructor left it
Fresh(m) == m \in Constructed(alg)

\* a > 0, read off the sign of the mantissa
Positive(a) == a[1] \in {"fin", "inf"} /\ a[2] > 0

\* i holds what a fresh instance read from the file
LoadedFresh(i) == loadedFrom[i] # <<>> /\ Fresh(loadedFrom[i][2])

\* C1: a fresh PA or NHERD instance that loaded the file of an instance
\* constructed with another selector gives every update the result and the
\* state the writer of the file gives it.
C1_LoadAdoptsSelector ==
  \A i \in Ids :
    (alg \in {"PA", "NHERD"} /\ LoadedFresh(i)) =>
      \A x \in Features(alg, inst[i].kDim), y \in Labels :
        LET a == update(alg, loadedFrom[i][1], x, y)
            b == update(alg, inst[i], x, y)
        IN  b.ret = a.ret /\ save(alg, b.model) = save(alg, a.model)

\* C2: a fresh ADAM or ADAGRAD_RDA instance that loaded a file has the
\* timestep of the writer, and the next update gives both the same weights
\* and the same timestep.
C2_TimestepSurvivesRoundTrip ==
  \A i \in Ids :
    (alg \in {"ADAM", "ADAGRAD_RDA"} /\ LoadedFresh(i)) =>
      /\ inst[i]._timestep = loadedFrom[i][1]._timestep
      /\ \A x \in Features(alg, inst[i].kDim), y \in Labels :
           LET a == update(alg, loadedFrom[i][1], x, y)
               b == update(alg, inst[i], x, y)
           IN  /\ b.ret = a.ret
               /\ b.model._w = a.model._w
               /\ b.model._timestep = a.model._timestep

\* C3: an instance that loaded a file holds the writer's weight (mean)
\* vector, element for element, and predicts the writer's label for every
\* feature vector.
C3_RoundTripPredict ==
  \A i \in Ids :
    loadedFrom[i] # <<>> =>
      /\ Weight(alg, inst[i]) = Weight(alg, loadedFrom[i][1])
      /\ \A x \in Features(alg, inst[i].kDim) :
           predict(alg, inst[i], x) = predict(alg, loadedFrom[i][1], x)

\* a fresh NHERD instance of another dimension loaded the file of a trained
\* one and predicts +1 for some feature vector
C3_Witness ==
  /\ alg = "NHERD"
  /\ LoadedFresh(2)
  /\ loadedFrom[2][2].kDim # inst[2].kDim
  /\ inst[2]._means # Zeros(inst[2].kDim)
  /\ \E x \in Features(alg, inst[2].kDim) : predict(alg, inst[2], x) = 1

\* y * (w . x) >= 1 for the weights of m
MarginAtLeastOne(m, x, y) == Ge(Mul(FromInt(y), Dot(m._w, x)), One)

\* C4: an ADAGRAD_RDA or ADAM update whose example has y * (w . x) >= 1
\* returns false and leaves every field of the instance as it was.
C4_NoLossNoUpdate ==
  alg \in {"ADAGRAD_RDA", "ADAM"} =>
    /\ (last.op = "update" /\ MarginAtLeastOne(last.pre[1], last.x, last.y)) =>
         last.ret = 0 /\ inst[last.id] = last.pre[1]
    /\ \A i \in Ids :
         \A x \in Features(alg, inst[i].kDim), y \in Labels :
           MarginAtLeastOne(inst[i], x, y) =>
             update(alg, inst[i], x, y) = [model |-> inst[i], ret |-> FALSE]

\* a trained ADAGRAD_RDA instance was given an example of margin >= 1
C4_Witness ==
  /\ alg = "ADAGRAD_RDA"
  /\ last.op = "update"
  /\ last.pre[1]._timestep > 0
  /\ MarginAtLeastOne(last.pre[1], last.x, last.y)
  /\ last.ret = 0

\* the weights after w <- w + tau * y * x with one tau for all coordinates
StepBy(m, x, y, tau) ==
  [k \in 1..Len(x) |-> Add(m._weight[k], Mul(Mul(tau, FromInt(y)), x[k]))]

\* C5: a PA-0 or PA-I update computes one tau from the squared norm of the
\* whole feature vector (PA-0: loss / |x|^2, 0 for |x| = 0; PA-I: the smaller
\* of C and loss / |x|^2, C for |x| = 0) and moves every coordinate by
\* tau * y * x[k].
C5_OneTauFromSquaredNorm ==
  (/\ alg = "PA"
   /\ last.op = "update"
   /\ last.pre[1].kSelect \in {0, 1}
   /\ last.pre[1]._compute_tau = last.pre[1].kSelect) =>
    LET m == last.pre[1]
        loss == PA_suffer_loss(m, last.x, last.y)
        norm2 == Dot(last.x, last.x)
        pa == Div(loss, norm2)
        tau == IF m.kSelect = 0
               THEN IF Eq(norm2, Zero) THEN Zero ELSE pa
               ELSE IF Eq(norm2, Zero) THEN m.kC ELSE Min(m.kC, pa)
    IN  inst[last.id]._weight = StepBy(m, last.x, last.y, tau)

\* C6: a PA-II update moves the weights by tau * y * x with
\* tau = loss / (|x|^2 + 1 / (2 * C)).
C6_ReciprocalRegularization ==
  (/\ alg = "PA"
   /\ last.op = "update"
   /\ last.pre[1].kSelect = 2
   /\ last.pre[1]._compute_tau = 2) =>
    LET m == last.pre[1]
        loss == PA_suffer_loss(m, last.x, last.y)
        norm2 == Dot(last.x, last.x)
        tau == Div(loss, Add(norm2, Div(One, Mul(Two, m.kC))))
    IN  inst[last.id]._weight = StepBy(m, last.x, last.y, tau)

\* the update of a fresh PA of dimension 2 with C = 0.5 on x = [1, 0], y = +1
WorkedExample(select) ==
  /\ alg = "PA"
  /\ last.op = "update"
  /\ last.pre[1] = PA_new(2, Dec(5, -1), select)
  /\ last.x = <<One, Zero>>
  /\ last.y = 1

\* C7: with C = 0.5, x = [1, 0], y = +1 and zero weights, one update has
\* tau = 0.5 and w = [0.5, 0] under PA-I, tau = 0.8 and w = [0.8, 0] under
\* PA-II, and w = tau * y * x.
C7_WorkedExample ==
  /\ WorkedExample(1) =>
       /\ PA_compute_tau(last.pre[1], One, One) = Dec(5, -1)
       /\ Dec(5, -1) = Min(Dec(5, -1), One)
       /\ inst[last.id]._weight = <<Dec(5, -1), Zero>>
       /\ inst[last.id]._weight = StepBy(last.pre[1], last.x, 1, Dec(5, -1))
  /\ WorkedExample(2) =>
       /\ PA_compute_tau(last.pre[1], One, One) = Dec(8, -1)
       /\ Dec(8, -1) = Div(One, Add(One, Dec(25, -2)))
       /\ inst[last.id]._weight = <<Dec(8, -1), Zero>>
       /\ inst[last.id]._weight = StepBy(last.pre[1], last.x, 1, Dec(8, -1))

\* the PA-II update of the example was made
C7_Witness == WorkedExample(2) /\ inst[last.id]._weight = <<Dec(8, -1), Zero>>

\* C8: predict leaves the instance as it was and returns +1 exactly when the
\* inner product of the weights and the feature vector is above zero,
\* otherwise -1 (so -1 for a margin of 0 and for every fresh instance);
\* asking again with the same vector returns the same label.
C8_PredictIsPureSign ==
  /\ last.op = "predict" =>
       /\ inst[last.id] = last.pre[1]
       /\ last.ret = IF Positive(Dot(Weight(alg, last.pre[1]), last.x))
                     THEN 1 ELSE -1
       /\ predict(alg, inst[last.id], last.x) = last.ret
  /\ \A m \in Constructed(alg) :
       \A x \in Features(alg, m.kDim) : predict(alg, m, x) = -1

\* a trained instance was asked about a non-zero vector on its boundary
C8_Witness ==
  /\ last.op = "predict"
  /\ last.x # Zeros(Len(last.x))
  /\ Weight(alg, last.pre[1]) # Zeros(Len(last.x))
  /\ Dot(Weight(alg, last.pre[1]), last.x) = Zero
  /\ last.ret = -1

\* C9: an ADAGRAD_RDA coordinate whose u = |g| / t was at most lambda at
\* every update made so far has weight 0.
C9_TruncatedCoordinateIsZero ==
  alg = "ADAGRAD_RDA" =>
    \A i \in Ids :
      \A k \in 1..inst[i].kDim : ~exceeded[i][k] => inst[i]._w[k] = Zero

\* after two updates one coordinate has gradient mass that never exceeded
\* lambda while another coordinate has a non-zero weight
C9_Witness ==
  /\ alg = "ADAGRAD_RDA"
  /\ \E i \in Ids :
       /\ inst[i]._timestep = 2
       /\ \E k \in 1..inst[i].kDim :
            /\ ~exceeded[i][k]
            /\ inst[i]._g[k] # Zero
            /\ inst[i]._w[k] = Zero
       /\ \E k \in 1..inst[i].kDim : exceeded[i][k] /\ inst[i]._w[k] # Zero

IsUpdateOf(i) ==
  nUpdates' = nUpdates + 1 /\ last'.op = "update" /\ last'.id = i

\* the step is a load call on instance i
IsLoadOf(i) ==
  /\ nTransfers' = nTransfers + 1
  /\ loadedFrom'[i] # <<>>
  /\ loadedFrom'[i] = <<saved[1], inst[i]>>
  /\ archive' = archive

\* a step in which no timestep decreases and one increases only by 1 and
\* only in an update that returns true
TimestepStepAsStated ==
  alg \in {"ADAGRAD_RDA", "ADAM"} =>
    \A i \in Ids :
      /\ inst'[i]._timestep >= inst[i]._timestep
      /\ inst'[i]._timestep > inst[i]._timestep =>
           /\ inst'[i]._timestep = inst[i]._timestep + 1
           /\ IsUpdateOf(i)
           /\ last'.ret = 1

\* C15 as stated: over update, predict, save and load the timestep of an
\* ADAGRAD_RDA or ADAM instance never decreases, and it increases, by
\* exactly 1, only in an update call that returns true.
C15_TimestepMonotoneOverAllCalls == [][TimestepStepAsStated]_vars

\* a step in which only an update that returns true or an ADAGRAD_RDA load
\* changes a timestep
TimestepStepAmended ==
  alg \in {"ADAGRAD_RDA", "ADAM"} =>
    \A i \in Ids :
      /\ IsUpdateOf(i) =>
           inst'[i]._timestep =
             inst[i]._timestep + (IF last'.ret = 1 THEN 1 ELSE 0)
      /\ (IsLoadOf(i) /\ alg = "ADAGRAD_RDA") =>
           inst'[i]._timestep = saved[1]._timestep
      /\ (~IsUpdateOf(i) /\ ~(IsLoadOf(i) /\ alg = "ADAGRAD_RDA")) =>
           inst'[i]._timestep = inst[i]._timestep

\* C15 amended: update, predict and save never decrease the timestep and
\* only an update that returns true increases it, by exactly 1; a load
\* leaves the timestep of ADAM as it is and sets that of ADAGRAD_RDA to the
\* timestep in the file, lower or higher.
C15_TimestepMonotoneBetweenLoads == [][TimestepStepAmended]_vars

\* an ADAGRAD_RDA instance at timestep 2 after a load from a file written at
\* timestep 1 and one more update
C15_Witness ==
  /\ alg = "ADAGRAD_RDA"
  /\ last.op = "update"
  /\ last.ret = 1
  /\ nTransfers >= 2
  /\ last.pre[1]._timestep = 1
  /\ inst[last.id]._timestep = 2

\* the divisors of the divisions one update call evaluates
PA_divisors(m, x, y) ==
  {Mul(FAbs(x[index]), FAbs(x[index])) :
     index \in {k \in 1..Len(x) :
                  \/ m._compute_tau = 1
                  \/ m._compute_tau = 0 /\ ~Eq(x[k], Zero)}}
  \cup {Add(Mul(FAbs(x[index]), FAbs(x[index])), Mul(Div(One, Two), m.kC)) :
          index \in {k \in 1..Len(x) : m._compute_tau = 2}}

ADAGRAD_RDA_divisors(m, x, y) ==
  LET r == ADAGRAD_RDA_update(m, x, y)
  IN  IF ~r.ret THEN {}
      ELSE {FromInt(r.model._timestep)}
             \cup {Sqrt(r.model._h[index]) : index \in 1..Len(x)}

ADAM_divisors(m, x, y) ==
  LET r == ADAM_update(m, x, y)
      timestep == r.model._timestep
  IN  IF ~r.ret THEN {}
      ELSE {Sub(One, Pow(kBeta1, timestep)), Sub(One, Pow(kBeta2, timestep))}
             \cup {Add(Sqrt(Div(r.model._v[index],
                                Sub(One, Pow(kBeta2, timestep)))), kEpsilon) :
                     index \in 1..Len(x)}

NHERD_divisors(m, x, y) ==
  LET r == NHERD_update(m, x, y)
      confidence == NHERD_compute_confidence(m, x)
      onePlus == Add(One, Mul(m.kC, confidence))
      CC == Mul(m.kC, m.kC)
      twoC == Mul(Two, m.kC)
  IN  IF ~r.ret THEN {}
      ELSE {m.kC, Add(confidence, Div(One, m.kC))}
             \cup UNION {
               CASE m._compute_covariance \in {0, 3} -> {Mul(onePlus, onePlus)}
                 [] m._compute_covariance = 1 ->
                      LET d == Add(One, Mul(Mul(Mul(m.kC, x[index]), x[index]),
                                            m._covariances[index]))
                      IN  {Mul(d, d)}
                 [] m._compute_covariance = 2 ->
                      {m._covariances[index],
                       Add(Div(One, m._covariances[index]),
                           Mul(Mul(Add(twoC, Mul(CC, confidence)), x[index]),
                               x[index]))} :
               index \in 1..Len(x)}

divisors(a, m, x, y) ==
  CASE a = "PA" -> PA_divisors(m, x, y)
    [] a = "ADAGRAD_RDA" -> ADAGRAD_RDA_divisors(m, x, y)
    [] a = "ADAM" -> ADAM_divisors(m, x, y)
    [] a = "NHERD" -> NHERD_divisors(m, x, y)

\* every element of every state vector of m is a finite number
StateIsFinite(a, m) ==
  \A v \in StateVectors(a, m) : \A k \in 1..Len(v) : IsFin(v[k])

C17_TrueIffStateChanged ==
  (last.op = "update" /\ alg \in {"ADAGRAD_RDA", "ADAM", "NHERD"}) =>
    (last.ret = 1 <=> inst[last.id] # last.pre[1])

\* the last call was an ADAGRAD_RDA update that was not skipped
PerformedRDAUpdate ==
  alg = "ADAGRAD_RDA" /\ last.op = "update" /\ last.ret = 1

\* C20 as stated: an ADAGRAD_RDA update that is not skipped leaves g[i],
\* h[i] and w[i] as they were for every coordinate with x[i] = 0.
C20_ZeroCoordinatesUntouched ==
  PerformedRDAUpdate =>
    \A k \in 1..Len(last.x) :
      last.x[k] = Zero =>
        /\ inst[last.id]._g[k] = last.pre[1]._g[k]
        /\ inst[last.id]._h[k] = last.pre[1]._h[k]
        /\ inst[last.id]._w[k] = last.pre[1]._w[k]

\* C20 amended: an ADAGRAD_RDA update that is not skipped leaves g[i] and
\* h[i] as they were for every coordinate with x[i] = 0, and sets w[i] anew
\* from them and the increased timestep t: 0 if |g[i]| / t <= lambda, else
\* -sign(g[i]) * eta / sqrt(h[i]) * t * (|g[i]| / t - lambda).
C20_ZeroCoordinatesReweighted ==
  PerformedRDAUpdate =>
    \A k \in 1..Len(last.x) :
      last.x[k] = Zero =>
        LET m == last.pre[1]
            t == m._timestep + 1
            u == Div(FAbs(m._g[k]), FromInt(t))
            sign == IF Positive(m._g[k]) \/ m._g[k] = Zero THEN 1 ELSE -1
        IN  /\ inst[last.id]._g[k] = m._g[k]
            /\ inst[last.id]._h[k] = m._h[k]
            /\ inst[last.id]._timestep = t
            /\ inst[last.id]._w[k] =
                 IF Le(u, m.kLambda) THEN Zero
                 ELSE Mul(Mul(Mul(FromInt(-sign), Div(m.kEta, Sqrt(m._h[k]))),
                              FromInt(t)),
                          Sub(u, m.kLambda))

\* an update changed the weight of a coordinate whose feature value is 0
\* and whose accumulated gradient is not
C20_Witness ==
  /\ PerformedRDAUpdate
  /\ \E k \in 1..Len(last.x) :
       /\ last.x[k] = Zero
       /\ last.pre[1]._g[k] # Zero
       /\ inst[last.id]._w[k] # last.pre[1]._w[k]

\* C21: in NHERD (C > 0, diagonal 0..3, covariances all ones at first) every
\* covariance entry is strictly positive in every state; a performed update
\* leaves covariances[k] as it was when x[k] = 0 and never raises it; and
\* confidence + 1/C, the divisor of alpha, is strictly positive.
C21_CovariancesStayPositive ==
  alg = "NHERD" =>
    /\ \A i \in Ids : \A k \in 1..Len(inst[i]._covariances) :
         Gt(inst[i]._covariances[k], Zero)
    /\ (last.op = "update" /\ last.ret = 1) =>
         /\ \A k \in 1..Len(last.x) :
              /\ Eq(last.x[k], Zero) =>
                   inst[last.id]._covariances[k] = last.pre[1]._covariances[k]
              /\ Le(inst[last.id]._covariances[k], last.pre[1]._covariances[k])
         /\ Gt(Add(NHERD_compute_confidence(last.pre[1], last.x),
                   Div(One, last.pre[1].kC)), Zero)

----------------------------------------------------------------------------
(* The creators with any constructor arguments, and calls that fail.      *)
(* The examples are built without NDEBUG, so assert and eigen_assert are  *)
(* compiled in; nothing in the sources catches an exception, so a failed  *)
(* assertion or a thrown exception ends the use of the instance.          *)

Creators == {"ADAGRAD_RDA", "ADAM", "NHERD", "PA", "SCW"}

\* the class named in the new-expression of creator c
Product(c) == IF c = "SCW" THEN "PA" ELSE c

\* BinaryOML::name() of class a
name(a) ==
  CASE a = "PA" -> "PA"
    [] a = "ADAGRAD_RDA" -> "ADAGRAD_RDA"
    [] a = "NHERD" -> "NHERD"

\* conversion of a finite double to int: the fractional part is discarded
ToInt(a) ==
  IF a[3] >= 0 THEN a[2] * 10^a[3]
  ELSE ISgn(a[2]) * (IAbs(a[2]) \div 10^(-a[3]))

\* the run-time assertions of the constructors; PA and NHERD have none
ADAGRAD_RDA_asserts(dim, eta, lambda) ==
  dim > 0 /\ Gt(eta, Zero) /\ Gt(lambda, Zero)

ADAM_asserts(dim) == dim > 0

\* the constructor of creator c: how new <class>(...) ended and the object
BinaryOMLCreator_new(c, dim, a1, a2) ==
  CASE c = "ADAGRAD_RDA" ->
         [status |-> IF ADAGRAD_RDA_asserts(dim, a1, a2) THEN "returned"
                     ELSE "assert",
          model |-> ADAGRAD_RDA_new(dim, a1, a2)]
    [] c = "ADAM" ->
         [status |-> IF ADAM_asserts(dim) THEN "returned" ELSE "assert",
          model |-> ADAM_new(dim)]
    [] c = "NHERD" -> [status |-> "returned", model |-> NHERD_new(dim, a1, a2)]
    [] c = "PA" -> [status |-> "returned", model |-> PA_new(dim, a1, a2)]
    [] c = "SCW" ->
         [status |-> "returned", model |-> PA_new(dim, a1, ToInt(a2))]

\* the std::function member was left empty by the constructor's switch
FunctionIsEmpty(a, m) ==
  CASE a = "PA" -> m._compute_tau \notin {0, 1, 2}
    [] a = "NHERD" -> m._compute_covariance \notin {0, 1, 2, 3}
    [] OTHER -> FALSE

\* NHERD::update up to the call of the empty _compute_covariance, which
\* throws after _means[0] was written
NHERD_update_until_throw(m, x, y) ==
  LET margin == NHERD_compute_margin(m, x)
      confidence == NHERD_compute_confidence(m, x)
      alpha == Div(Max(Zero, Sub(One, Mul(FromInt(y), margin))),
                   Add(confidence, Div(One, m.kC)))
  IN  [m EXCEPT !._means[1] =
         Add(@, Mul(Mul(Mul(alpha, FromInt(y)), m._covariances[1]), x[1]))]

\* the result r of update, with how the call ended
Ended(r, status) == [model |-> r.model, ret |-> r.ret, status |-> status]

\* update through the interface, that pads or cuts feature to the model's
\* size where the inner product asserts equal sizes
BinaryOML_update_resizes(a, m, x, y) ==
  LET feature == [k \in 1..Len(Weight(a, m)) |->
                    IF k <= Len(x) THEN x[k] ELSE Zero]
  IN  IF FunctionIsEmpty(a, m) /\ Len(feature) > 0
      THEN IF a = "PA"
           THEN [model |-> m, ret |-> FALSE, status |-> "bad_function_call"]
           ELSE IF Ge(NHERD_suffer_loss(NHERD_compute_margin(m, feature), y), One)
           THEN [model |-> m, ret |-> FALSE, status |-> "returned"]
           ELSE [model |-> NHERD_update_until_throw(m, feature, y),
                 ret |-> FALSE, status |-> "bad_function_call"]
      ELSE Ended(update(a, m, feature, y), "returned")

\* update through the interface with any feature and any instance: the
\* inner product asserts equal sizes before anything is written, and the
\* call of an empty std::function throws at the first coordinate
BinaryOML_update(a, m, x, y) ==
  IF Len(x) # Len(Weight(a, m))
  THEN [model |-> m, ret |-> FALSE, status |-> "assert"]
  ELSE IF FunctionIsEmpty(a, m) /\ Len(x) > 0
  THEN IF a = "PA"
       THEN [model |-> m, ret |-> FALSE, status |-> "bad_function_call"]
       ELSE IF Ge(NHERD_suffer_loss(NHERD_compute_margin(m, x), y), One)
       THEN [model |-> m, ret |-> FALSE, status |-> "returned"]
       ELSE [model |-> NHERD_update_until_throw(m, x, y), ret |-> FALSE,
             status |-> "bad_function_call"]
  ELSE Ended(update(a, m, x, y), "returned")

\* predict through the interface with any feature
BinaryOML_predict(a, m, x) ==
  IF Len(x) # Len(Weight(a, m)) THEN [ret |-> 0, status |-> "assert"]
  ELSE [ret |-> predict(a, m, x), status |-> "returned"]


\* the position after the std::vector at p, 0 when the file ends inside it
VectorEnd(ar, p) ==
  IF p > 0 /\ p <= Len(ar) /\ p + ar[p] <= Len(ar) THEN p + ar[p] + 1 ELSE 0

\* the token at p if the file reaches p, else the value the member keeps
Field(ar, p, old) == IF p <= Len(ar) THEN ar[p] ELSE old

\* the position of the first scalar of class a in file ar, 0 when the file
\* ends before it
ScalarsAt(a, ar) ==
  CASE a = "PA" -> VectorEnd(ar, 1)
    [] a = "NHERD" -> VectorEnd(ar, VectorEnd(ar, 1))
    [] OTHER -> VectorEnd(ar, VectorEnd(ar, VectorEnd(ar, 1)))

\* the scalars class a reads after its vectors
NScalars(a) ==
  CASE a = "PA" -> 3 [] a = "ADAGRAD_RDA" -> 4 [] a = "ADAM" -> 1 [] a = "NHERD" -> 3

\* the file ends before the last field load(Archive) of class a reads
EndsEarly(a, ar) ==
  ScalarsAt(a, ar) = 0 \/ Len(ar) < ScalarsAt(a, ar) + NScalars(a) - 1

\* load(Archive) on a file that ends early: the vectors are read into
\* locals, each scalar is written into its member as it is read, and the
\* read past the end throws before the vectors are assigned
load_until_throw(a, m, ar) ==
  LET p == ScalarsAt(a, ar)
  IN  IF p = 0 THEN m
      ELSE CASE a = "PA" ->
                  [m EXCEPT !.kDim = Field(ar, p, @), !.kC = Field(ar, p + 1, @),
                            !.kSelect = Field(ar, p + 2, @)]
             [] a = "ADAGRAD_RDA" ->
                  [m EXCEPT !.kDim = Field(ar, p, @), !.kEta = Field(ar, p + 1, @),
                            !.kLambda = Field(ar, p + 2, @),
                            !._timestep = Field(ar, p + 3, @)]
             [] a = "ADAM" -> [m EXCEPT !.kDim = Field(ar, p, @)]
             [] a = "NHERD" ->
                  [m EXCEPT !.kDim = Field(ar, p, @), !.kC = Field(ar, p + 1, @),
                            !.kDiagonal = Field(ar, p + 2, @)]

\* load(filename): exists says whether the file can be opened
BinaryOML_load(a, m, exists, ar) ==
  IF ~exists THEN [model |-> m, status |-> "assert"]
  ELSE IF EndsEarly(a, ar)
  THEN [model |-> load_until_throw(a, m, ar), status |-> "archive_exception"]
  ELSE [model |-> load(a, m, ar), status |-> "returned"]

\* the save of trainAndSave after its update ended as r; file is the
\* content of the model file before the call
ThenSave(a, r, file) ==
  [model |-> r.model, ret |-> r.ret, status |-> r.status,
   file |-> IF r.status = "returned" THEN save(a, r.model) ELSE file]

\* BinaryOMLCreator::trainAndSave on the decoded record <<x, y>>
trainAndSave(a, m, x, y, file) ==
  ThenSave(a, BinaryOML_update(a, m, x, y), file)

\* the two headers that define BinaryOMLCreator
Headers == {"part_000", "binary_oml_factory.hpp"}

\* the constructor arguments <<dim, a1, a2>> the first creator is built with
Arguments(c) ==
  CASE c = "PA" -> {2} \X {Neg(One), Dec(5, -1)} \X {1, 3}
    [] c = "SCW" -> {2} \X {Dec(5, -1)} \X {Dec(5, -1), FromInt(3)}
    [] c = "NHERD" -> {2} \X {Zero, One} \X {0, 4}
    [] c = "ADAGRAD_RDA" ->
         {<<2, One, Dec(1, -1)>>, <<0, One, Dec(1, -1)>>, <<2, Zero, Dec(1, -1)>>,
          <<2, One, Zero>>}
    [] c = "ADAM" -> {0, 2} \X {Zero} \X {Zero}

\* the arguments of the second creator
SecondArguments(c) ==
  CASE c = "PA" -> <<1, One, 2>>
    [] c = "SCW" -> <<1, One, One>>
    [] c = "NHERD" -> <<1, Two, 1>>
    [] c = "ADAGRAD_RDA" -> <<1, Two, Dec(5, -1)>>
    [] c = "ADAM" -> <<1, Zero, Zero>>

\* the records <<featureVector, label>> read_ones decodes for the dim the
\* caller passes (1 or 2)
Records == {<<<<One>>, 1>>, <<<<One, Zero>>, 1>>, <<<<Zero, One>>, -1>>}

Created(c, h, args) ==
  LET made == BinaryOMLCreator_new(c, args[1], args[2], args[3])
  IN  [name |-> c, header |-> h, dim |-> args[1], a1 |-> args[2],
       a2 |-> args[3], status |-> made.status]

InitCreators ==
  /\ \E c \in Creators, h \in Headers : \E args \in Arguments(c) :
       LET second == SecondArguments(c)
       IN  /\ alg = Product(c)
           /\ inst = <<BinaryOMLCreator_new(c, args[1], args[2], args[3]).model,
                       BinaryOMLCreator_new(c, second[1], second[2],
                                            second[3]).model>>
           /\ creator = <<Created(c, h, args), Created(c, h, second)>>
  /\ archive = <<>>
  /\ nUpdates = 0
  /\ nTransfers = 0
  /\ saved = <<>>
  /\ loadedFrom = [i \in Ids |-> <<>>]
  /\ last = NoCall
  /\ exceeded = [i \in Ids |-> <<>>]

\* the instance is alive and its creator comes from header h
Usable(i, h) == creator[i].status = "returned" /\ creator[i].header = h

Before(i) == <<inst[i], archive, nUpdates>>

\* the second creator is only used once a file was written
InUse(i) == i = 1 \/ nTransfers > 0

\* where the file read by load ends: it is whole, empty, or cut before one
\* of its scalars
Cuts(a, ar) == {n \in 0..Len(ar) : n = 0 \/ n >= Len(ar) - NScalars(a)}

Train(i) ==
  /\ Usable(i, "part_000")
  /\ InUse(i)
  /\ nUpdates < MaxUpdates
  /\ \E rec \in Records :
       \E r \in {BinaryOML_update(alg, inst[i], rec[1], rec[2])} :
           /\ inst' = [inst EXCEPT ![i] = r.model]
           /\ creator' = [creator EXCEPT ![i].status = r.status]
           /\ nUpdates' = nUpdates + (IF r.status = "assert" THEN 0 ELSE 1)
           /\ last' = Call("train", i, rec[1], rec[2], IF r.ret THEN 1 ELSE 0,
                           Before(i))
  /\ UNCHANGED <<alg, archive, nTransfers, saved, loadedFrom, exceeded>>

TrainAndSave(i) ==
  /\ Usable(i, "part_000")
  /\ i = 1
  /\ nUpdates < MaxUpdates
  /\ nTransfers < MaxTransfers
  /\ \E rec \in Records :
       \E r \in {trainAndSave(alg, inst[i], rec[1], rec[2], archive)} :
           /\ inst' = [inst EXCEPT ![i] = r.model]
           /\ creator' = [creator EXCEPT ![i].status = r.status]
           /\ archive' = r.file
           /\ nUpdates' = nUpdates + (IF r.status = "assert" THEN 0 ELSE 1)
           /\ last' = Call("trainAndSave", i, rec[1], rec[2],
                           IF r.ret THEN 1 ELSE 0, Before(i))
  /\ nTransfers' = nTransfers + 1
  /\ UNCHANGED <<alg, saved, loadedFrom, exceeded>>

Infer(i) ==
  /\ Usable(i, "part_000")
  /\ InUse(i)
  /\ \E rec \in Records :
       \E r \in {BinaryOML_predict(alg, inst[i], rec[1])} :
           /\ creator' = [creator EXCEPT ![i].status = r.status]
           /\ last' = Call("infer", i, rec[1], 0, r.ret, Before(i))
  /\ UNCHANGED <<alg, inst, archive, nUpdates, nTransfers, saved, loadedFrom,
                 exceeded>>

CreatorSave(i) ==
  /\ creator[i].status = "returned"
  /\ i = 1
  /\ nTransfers < MaxTransfers
  /\ archive' = save(alg, inst[i])
  /\ nTransfers' = nTransfers + 1
  /\ last' = Call("save", i, <<>>, 0, 0, Before(i))
  /\ UNCHANGED <<alg, inst, nUpdates, saved, loadedFrom, exceeded, creator>>

\* the file is missing before the first save; afterwards load may find it
\* whole or cut after any token
CreatorLoad(i) ==
  /\ Usable(i, "part_000")
  /\ nTransfers < MaxTransfers
  /\ \E n \in Cuts(alg, archive) :
       \E r \in {BinaryOML_load(alg, inst[i], archive # <<>>,
                                 SubSeq(archive, 1, n))} :
           /\ inst' = [inst EXCEPT ![i] = r.model]
           /\ creator' = [creator EXCEPT ![i].status = r.status]
           /\ last' = Call("load", i, SubSeq(archive, 1, n), 0, 0, Before(i))
  /\ nTransfers' = nTransfers + 1
  /\ UNCHANGED <<alg, archive, nUpdates, saved, loadedFrom, exceeded>>

\* train(), trainAndSave(modelFilePath) and load(modelFilePath) of the
\* header binary_oml_factory.hpp
PrintTrain(i) ==
  /\ Usable(i, "binary_oml_factory.hpp")
  /\ InUse(i)
  /\ last' = Call("train", i, <<>>, 0, 0, Before(i))
  /\ UNCHANGED <<alg, inst, archive, nUpdates, nTransfers, saved, loadedFrom,
                 exceeded, creator>>

PrintTrainAndSave(i) ==
  /\ Usable(i, "binary_oml_factory.hpp")
  /\ i = 1
  /\ nTransfers < MaxTransfers
  /\ archive' = save(alg, inst[i])
  /\ nTransfers' = nTransfers + 1
  /\ last' = Call("trainAndSave", i, <<>>, 0, 0, Before(i))
  /\ UNCHANGED <<alg, inst, nUpdates, saved, loadedFrom, exceeded, creator>>

PrintLoad(i) ==
  /\ Usable(i, "binary_oml_factory.hpp")
  /\ nTransfers < MaxTransfers
  /\ nTransfers' = nTransfers + 1
  /\ last' = Call("load", i, <<>>, 0, 0, Before(i))
  /\ UNCHANGED <<alg, inst, archive, nUpdates, saved, loadedFrom, exceeded,
                 creator>>

NextCreators ==
  \E i \in Ids :
    \/ Train(i) \/ TrainAndSave(i) \/ Infer(i) \/ CreatorSave(i)
    \/ CreatorLoad(i)
    \/ PrintTrain(i) \/ PrintTrainAndSave(i) \/ PrintLoad(i)

SpecCreators == InitCreators /\ [][NextCreators]_vars


----------------------------------------------------------------------------
(* Properties of the creators *)

\* C11: a PA built with a select outside {0,1,2} or a NHERD built with a
\* diagonal outside {0,1,2,3} is never a usable instance (its construction
\* failed), and no train or trainAndSave call reaches update on an instance
\* whose _compute_tau or _compute_covariance is unset.
C11_UnknownSelectorFailsConstruction ==
  /\ \A i \in Ids :
       (creator[i].name \in {"PA", "NHERD"} /\ FunctionIsEmpty(alg, inst[i]))
         => creator[i].status # "returned"
  /\ (last.op \in {"train", "trainAndSave"}
        /\ creator[last.id].name \in {"PA", "NHERD"}
        /\ last.x # <<>>)
       => ~FunctionIsEmpty(alg, last.pre[1])

\* the arguments creator cr was built with hold a dimension <= 0 or a
\* regularization hyperparameter <= 0
NonPositiveArguments(cr) ==
  \/ cr.dim <= 0
  \/ cr.name \in {"PA", "NHERD"} /\ Le(cr.a1, Zero)
  \/ cr.name = "ADAGRAD_RDA" /\ (Le(cr.a1, Zero) \/ Le(cr.a2, Zero))

\* C12: no variant built with a dimension <= 0 or with a regularization
\* hyperparameter <= 0 (PA C, NHERD C, ADAGRAD_RDA eta and lambda) is a
\* usable instance: its construction ended in a failed assertion.
C12_NonPositiveArgumentsRejected ==
  \A i \in Ids : NonPositiveArguments(creator[i]) => creator[i].status = "assert"

\* C13: the instance a creator owns is of the creator's algorithm, and
\* name() returns that algorithm's identifier (ADAM declares no name()).
C13_CreatorOwnsItsAlgorithm ==
  \A i \in Ids :
    /\ alg = creator[i].name
    /\ creator[i].name # "ADAM" => name(alg) = creator[i].name

C18_FailedLoadChangesNothing ==
  (last.op = "load" /\ creator[last.id].status # "returned")
    => inst[last.id] = last.pre[1]

\* C19: a train or trainAndSave call that returns has made exactly one
\* update, with the decoded record, and the file trainAndSave wrote is the
\* saved form of the instance after that update.
C19_TrainUpdatesOnceBeforeSaving ==
  (last.op \in {"train", "trainAndSave"} /\ creator[last.id].status = "returned")
    => /\ nUpdates = last.pre[3] + 1
       /\ inst[last.id] = update(alg, last.pre[1], last.x, last.y).model
       /\ last.op = "trainAndSave" => archive = save(alg, inst[last.id])

==============================================================================
